---- MODULE Spec2Model ----
(***************************************************************************)
(* A model of model_decoding_raw_try_another_model2.py: the low-rank       *)
(* adapter (LoRALinear, LoRALayer), the projection head, the recurrent     *)
(* feature encoder and the BrainTranslator that composes them around a     *)
(* pretrained decoder (xlnet).                                             *)
(*                                                                         *)
(* Three parts of the program are modelled, each with its own             *)
(* specification over the same variables:                                  *)
(*   SpecParams   the module tree BrainTranslator.__init__ assembles, its  *)
(*                parameter registry (named_parameters) and the methods    *)
(*                that read or set requires_grad;                          *)
(*   SpecForward  the tensor ranks and shapes of BrainTranslator.forward   *)
(*                and FeatureEmbedded.forward, the subject registry and    *)
(*                the mode switch;                                         *)
(*   SpecHead     the arithmetic of LoRALinear, LoRALayer and              *)
(*                ProjectionHead on small integer tensors.                 *)
(***************************************************************************)
EXTENDS Integers, Sequences, FiniteSets, TLC

VARIABLES
    math_bound,     \* whether the name `math` resolves in the module namespace
    self,           \* the BrainTranslator object: None or its attributes
    requires_grad,  \* ids of the parameters whose requires_grad is True
    exc,            \* the exception the last call raised, or None
    ret,            \* what the last call returned
    last,           \* the last call made on the object
    pre,            \* requires_grad as it was when the last call started
    flips,          \* requires_grad_ calls made from outside so far
    args,           \* the arguments of the forward call that is due or was made last
    locals,         \* the local variables of the last forward call when it ended
    calls,          \* the calls the last forward call made on the decoder
    net             \* a LoRALayer or ProjectionHead built on its own, or None

vars == <<math_bound, self, requires_grad, exc, ret, last, pre, flips,
          args, locals, calls, net>>

None == "None"

\* self before a constructor has returned an object
NoObject == [built |-> FALSE]

\* a call that returns nothing
NoValue == [kind |-> "None"]

(***************************************************************************)
(* Bounds of the model.                                                    *)
(***************************************************************************)
\* transformer layers of the decoder handed to BrainTranslator.__init__
XlnetLayers == 1
\* calls of nn.Module.requires_grad_ made by the caller between the methods
MaxFlips == 1

(***************************************************************************)
(* Program constants.                                                      *)
(***************************************************************************)
\* nn.TransformerEncoder(self.encoder_layer, num_layers=12)
NumLayers == 12
\* len(SUBJECTS)
NumSubjects == 30
\* BrainTranslator.__init__(..., in_feature=840, ...)
DefaultInFeature == 840

(***************************************************************************)
(* nn.Module trees.  A module has an identity (id), a class (kind), its    *)
(* own parameters in registration order and its child modules in           *)
(* registration order (_modules).  A child is registered under a key; a    *)
(* key is the sequence of the '.'-separated parts of the attribute name,   *)
(* so the key 'linear1' is <<"linear1">> and the single key                *)
(* 'self_attn.out_proj' is <<"self_attn", "out_proj">>.                    *)
(***************************************************************************)
Mod(id, kind, params, children) ==
    [id |-> id, kind |-> kind, params |-> params, children |-> children]

Child(key, m) == [key |-> key, mod |-> m]

\* nn.Linear and the classes derived from it own weight and bias
Linear(id) == Mod(id, "Linear", <<"weight", "bias">>, <<>>)

LayerNorm(id) == Mod(id, "LayerNorm", <<"weight", "bias">>, <<>>)

\* LoRALinear.__init__: two parameters, lora_A and lora_B
LoRALinear(id) == Mod(id, "LoRALinear", <<"lora_A", "lora_B">>, <<>>)

\* LoRALayer.__init__: self.base_layer is the module passed in (the same
\* object, same id), self.lora a new LoRALinear
LoRALayer(base) ==
    Mod(<<"LoRALayer">> \o base.id, "LoRALayer", <<>>,
        << Child(<<"base_layer">>, base),
           Child(<<"lora">>, LoRALinear(<<"LoRALinear">> \o base.id)) >>)

\* ProjectionHead.__init__
ProjectionHead(id, use_lora) ==
    LET base_projection == Linear(id \o <<"projection">>)
        base_fc == Linear(id \o <<"fc">>)
    IN  Mod(id, "ProjectionHead", <<>>,
            << Child(<<"projection">>,
                     IF use_lora THEN LoRALayer(base_projection) ELSE base_projection),
               Child(<<"fc">>, IF use_lora THEN LoRALayer(base_fc) ELSE base_fc),
               Child(<<"gelu">>, Mod(id \o <<"gelu">>, "GELU", <<>>, <<>>)),
               Child(<<"dropout">>, Mod(id \o <<"dropout">>, "Dropout", <<>>, <<>>)) >>)

\* nn.GRU(num_layers=2, bidirectional=True): four parameters per layer and
\* direction
GRUParams ==
    << "weight_ih_l0", "weight_hh_l0", "bias_ih_l0", "bias_hh_l0",
       "weight_ih_l0_reverse", "weight_hh_l0_reverse",
       "bias_ih_l0_reverse", "bias_hh_l0_reverse",
       "weight_ih_l1", "weight_hh_l1", "bias_ih_l1", "bias_hh_l1",
       "weight_ih_l1_reverse", "weight_hh_l1_reverse",
       "bias_ih_l1_reverse", "bias_hh_l1_reverse" >>

\* FeatureEmbedded.__init__: self.lstm is the GRU
FeatureEmbeddedModule(id) ==
    Mod(id, "FeatureEmbedded", <<>>,
        << Child(<<"lstm">>, Mod(id \o <<"lstm">>, "GRU", GRUParams, <<>>)) >>)

\* nn.TransformerEncoderLayer as the constructor gets it from torch: the
\* attention block owns the packed in_proj parameters and one Linear child,
\* out_proj; the feed-forward layers linear1 and linear2 are Linear children
TransformerEncoderLayer(id) ==
    Mod(id, "TransformerEncoderLayer", <<>>,
        << Child(<<"self_attn">>,
                 Mod(id \o <<"self_attn">>, "MultiheadAttention",
                     <<"in_proj_weight", "in_proj_bias">>,
                     << Child(<<"out_proj">>, Linear(id \o <<"self_attn", "out_proj">>)) >>)),
           Child(<<"linear1">>, Linear(id \o <<"linear1">>)),
           Child(<<"dropout">>, Mod(id \o <<"dropout">>, "Dropout", <<>>, <<>>)),
           Child(<<"linear2">>, Linear(id \o <<"linear2">>)),
           Child(<<"norm1">>, LayerNorm(id \o <<"norm1">>)),
           Child(<<"norm2">>, LayerNorm(id \o <<"norm2">>)),
           Child(<<"dropout1">>, Mod(id \o <<"dropout1">>, "Dropout", <<>>, <<>>)),
           Child(<<"dropout2">>, Mod(id \o <<"dropout2">>, "Dropout", <<>>, <<>>)) >>)

\* the index of the child registered under key, 0 when there is none
ChildIndex(m, key) ==
    IF \E i \in 1..Len(m.children) : m.children[i].key = key
    THEN CHOOSE i \in 1..Len(m.children) : m.children[i].key = key
    ELSE 0

\* getattr(m, key) for a registered child
GetChild(m, key) == m.children[ChildIndex(m, key)].mod

\* setattr(m, name, value) with a Module value: nn.Module.__setattr__ stores
\* it in m._modules[name].  The name is used as one key, whatever it
\* spells: an existing key keeps its place, a new key is added at the end.
Setattr(m, key, value) ==
    LET i == ChildIndex(m, key)
    IN  [m EXCEPT !.children =
            IF i = 0 THEN Append(@, Child(key, value))
            ELSE [@ EXCEPT ![i] = Child(key, value)]]

\* named_modules(): the module itself, then each child's modules, the
\* prefix joined to the child's key with '.'
RECURSIVE NamedModulesRaw(_, _)
NamedModulesRaw(m, prefix) ==
    LET RECURSIVE Kids(_)
        Kids(i) ==
            IF i > Len(m.children) THEN <<>>
            ELSE NamedModulesRaw(m.children[i].mod, prefix \o m.children[i].key)
                 \o Kids(i + 1)
    IN  <<[name |-> prefix, mod |-> m]>> \o Kids(1)

\* the memo of named_modules() and named_parameters(): an object met again
\* (and with it everything below it) is not yielded a second time
FirstOfEachId(seq) ==
    LET indexed == [i \in 1..Len(seq) |-> [i |-> i, item |-> seq[i]]]
        IsFirst(e) == \A j \in 1..(e.i - 1) : seq[j].id # e.item.id
        kept == SelectSeq(indexed, IsFirst)
    IN  [k \in 1..Len(kept) |-> kept[k].item]

\* the concatenation of seqs[lo], ..., seqs[hi]
RECURSIVE Concat(_, _, _)
Concat(seqs, lo, hi) ==
    IF lo > hi THEN <<>>
    ELSE IF lo = hi THEN seqs[lo]
    ELSE LET mid == (lo + hi) \div 2
         IN  Concat(seqs, lo, mid) \o Concat(seqs, mid + 1, hi)

NamedModules(m) ==
    LET raw == NamedModulesRaw(m, <<>>)
    IN  FirstOfEachId([i \in 1..Len(raw) |->
                          [name |-> raw[i].name, mod |-> raw[i].mod, id |-> raw[i].mod.id]])

\* named_parameters(): for each module of named_modules(), its own
\* parameters, named <module name>.<parameter name>.  A parameter is
\* identified by the module object that owns it and its name there; owner
\* is the class of that module.
NamedParameters(m) ==
    LET mods == NamedModules(m)
        own == [i \in 1..Len(mods) |->
                  [k \in 1..Len(mods[i].mod.params) |->
                      [name |-> mods[i].name \o <<mods[i].mod.params[k]>>,
                       id |-> <<mods[i].mod.id, mods[i].mod.params[k]>>,
                       owner |-> mods[i].mod.kind]]]
    IN  FirstOfEachId(Concat(own, 1, Len(own)))

\* copy.deepcopy of a module: every object below it is a new object, and
\* two references to one object stay two references to one (new) object
RECURSIVE DeepCopy(_, _)
DeepCopy(m, tag) ==
    Mod(<<"deepcopy", tag>> \o m.id, m.kind, m.params,
        [i \in 1..Len(m.children) |->
            Child(m.children[i].key, DeepCopy(m.children[i].mod, tag))])

\* nn.TransformerEncoder(encoder_layer, num_layers): layers is a ModuleList
\* of num_layers deep copies of encoder_layer, keyed '0', '1', ...
TransformerEncoder(id, encoder_layer, num_layers) ==
    Mod(id, "TransformerEncoder", <<>>,
        << Child(<<"layers">>,
                 Mod(id \o <<"layers">>, "ModuleList", <<>>,
                     [i \in 1..num_layers |->
                         Child(<<ToString(i - 1)>>,
                               DeepCopy(encoder_layer, ToString(i - 1)))])) >>)

(***************************************************************************)
(* The decoder handed to the constructor.  The constructor and             *)
(* _add_lora_to_xlnet read xlnet.transformer.layer, and in each layer      *)
(* rel_attn.q, .k, .v, .o and ff.layer_1, .layer_2, each with in_features  *)
(* and out_features: a list of layers whose six projections are linear     *)
(* modules.  The other members of the decoder are parameters and modules   *)
(* the program never names.                                                *)
(***************************************************************************)
XlnetLayer(id) ==
    Mod(id, "XLNetLayer", <<>>,
        << Child(<<"rel_attn">>,
                 Mod(id \o <<"rel_attn">>, "XLNetRelativeAttention",
                     <<"r", "r_r_bias", "r_s_bias", "r_w_bias", "seg_embed">>,
                     << Child(<<"q">>, Linear(id \o <<"rel_attn", "q">>)),
                        Child(<<"k">>, Linear(id \o <<"rel_attn", "k">>)),
                        Child(<<"v">>, Linear(id \o <<"rel_attn", "v">>)),
                        Child(<<"o">>, Linear(id \o <<"rel_attn", "o">>)),
                        Child(<<"layer_norm">>, LayerNorm(id \o <<"rel_attn", "layer_norm">>)) >>)),
           Child(<<"ff">>,
                 Mod(id \o <<"ff">>, "XLNetFeedForward", <<>>,
                     << Child(<<"layer_norm">>, LayerNorm(id \o <<"ff", "layer_norm">>)),
                        Child(<<"layer_1">>, Linear(id \o <<"ff", "layer_1">>)),
                        Child(<<"layer_2">>, Linear(id \o <<"ff", "layer_2">>)) >>)) >>)

Xlnet(n_layer) ==
    Mod(<<"xlnet">>, "XLNetLMHeadModel", <<>>,
        << Child(<<"transformer">>,
                 Mod(<<"xlnet", "transformer">>, "XLNetModel", <<"mask_emb">>,
                     << Child(<<"word_embedding">>,
                              Mod(<<"xlnet", "transformer", "word_embedding">>,
                                  "Embedding", <<"weight">>, <<>>)),
                        Child(<<"layer">>,
                              Mod(<<"xlnet", "transformer", "layer">>, "ModuleList", <<>>,
                                  [i \in 1..n_layer |->
                                      Child(<<ToString(i - 1)>>,
                                            XlnetLayer(<<"xlnet", "transformer", "layer",
                                                         ToString(i - 1)>>))])) >>)),
           Child(<<"lm_loss">>, Linear(<<"xlnet", "lm_loss">>)) >>)

\* the module reached from m by getattr along a sequence of keys
RECURSIVE GetAt(_, _)
GetAt(m, path) == IF path = <<>> THEN m ELSE GetAt(GetChild(m, path[1]), Tail(path))

\* target.key = LoRALayer(target.key), target the module reached from m
\* along path
RECURSIVE WrapAt(_, _, _)
WrapAt(m, path, key) ==
    IF path = <<>> THEN Setattr(m, key, LoRALayer(GetChild(m, key)))
    ELSE [m EXCEPT !.children[ChildIndex(m, path[1])].mod = WrapAt(@, Tail(path), key)]

\* the six assignments _add_lora_to_xlnet makes in one layer, in its order
XlnetSlots ==
    << <<"rel_attn", "q">>, <<"rel_attn", "k">>, <<"rel_attn", "v">>,
       <<"rel_attn", "o">>, <<"ff", "layer_1">>, <<"ff", "layer_2">> >>

\* BrainTranslator._add_lora_to_xlnet
RECURSIVE AddLoraFrom(_, _, _)
AddLoraFrom(xlnet, i, s) ==
    LET n == Len(GetAt(xlnet, << <<"transformer">>, <<"layer">> >>).children)
    IN  IF i > n THEN xlnet
        ELSE IF s > Len(XlnetSlots) THEN AddLoraFrom(xlnet, i + 1, 1)
        ELSE AddLoraFrom(
                WrapAt(xlnet,
                       << <<"transformer">>, <<"layer">>, <<ToString(i - 1)>>,
                          <<XlnetSlots[s][1]>> >>,
                       <<XlnetSlots[s][2]>>),
                i, s + 1)

add_lora_to_xlnet(xlnet) == AddLoraFrom(xlnet, 1, 1)

(***************************************************************************)
(* The loop of BrainTranslator.__init__ over encoder_layer.named_modules() *)
(* that calls setattr(encoder_layer, name, LoRALayer(module)) for every    *)
(* nn.Linear it meets.  named_modules() is a generator over the live       *)
(* _modules dicts.  A setattr whose name is no key of encoder_layer yet    *)
(* adds an entry to the dict being iterated; Python leaves the rest of     *)
(* such an iteration open: it "may raise a RuntimeError or fail to iterate *)
(* over all entries".  LoopOutcomes lists what the loop can do: raise, or  *)
(* go on and miss any of the entries that follow.                          *)
(***************************************************************************)
\* isinstance(module, nn.Linear)
IsLinear(m) == m.kind = "Linear"

\* the positions, in what named_modules() yields, of the nn.Linear modules
LinearItems(items) == {i \in 1..Len(items) : IsLinear(items[i].mod)}

\* the first position whose setattr adds a key to encoder_layer, 0 if none
FirstAdded(layer, items) ==
    LET adds == {i \in LinearItems(items) : ChildIndex(layer, items[i].name) = 0}
    IN  IF adds = {} THEN 0 ELSE CHOOSE i \in adds : \A j \in adds : i <= j

RECURSIVE LoraLoopFrom(_, _, _, _)
LoraLoopFrom(layer, items, i, missed) ==
    IF i > Len(items) THEN layer
    ELSE IF IsLinear(items[i].mod) /\ i \notin missed
         THEN LoraLoopFrom(Setattr(layer, items[i].name, LoRALayer(items[i].mod)),
                           items, i + 1, missed)
         ELSE LoraLoopFrom(layer, items, i + 1, missed)

\* encoder_layer after the loop has run to its end having missed the
\* entries at the positions in missed
LoraLoop(layer, missed) == LoraLoopFrom(layer, NamedModules(layer), 1, missed)

LoopOutcomes(layer) ==
    LET items == NamedModules(layer)
        d == FirstAdded(layer, items)
    IN  IF d = 0 THEN {[raises |-> FALSE, missed |-> {}]}
        ELSE {[raises |-> TRUE, missed |-> {}]}
             \cup {[raises |-> FALSE, missed |-> s] :
                      s \in SUBSET {i \in LinearItems(items) : i > d}}

(***************************************************************************)
(* BrainTranslator.__init__.  LoRALinear.__init__ calls math.sqrt, and the *)
(* file imports no math: building any LoRALinear raises NameError unless   *)
(* the importing program has bound the name in this module (math_bound).   *)
(***************************************************************************)
SubjectIndexNames == [i \in 1..NumSubjects |-> ToString(i - 1)]

BrainTranslatorTree(use_lora, missed, xlnet) ==
    LET layer0 == TransformerEncoderLayer(<<"encoder_layer">>)
        encoder_layer == IF use_lora THEN LoraLoop(layer0, missed) ELSE layer0
    IN  Mod(<<"BrainTranslator">>, "BrainTranslator", <<"pos_embedding">>,
            << Child(<<"feature_embedded">>, FeatureEmbeddedModule(<<"feature_embedded">>)),
               Child(<<"fc">>, ProjectionHead(<<"fc">>, use_lora)),
               Child(<<"conv1d_point">>,
                     Mod(<<"conv1d_point">>, "Conv1d", <<"weight", "bias">>, <<>>)),
               Child(<<"subject_matrices">>,
                     Mod(<<"subject_matrices">>, "ParameterList", SubjectIndexNames, <<>>)),
               Child(<<"encoder_layer">>, encoder_layer),
               Child(<<"encoder">>,
                     TransformerEncoder(<<"encoder">>, encoder_layer, NumLayers)),
               Child(<<"layernorm_embedding">>, LayerNorm(<<"layernorm_embedding">>)),
               Child(<<"brain_projection">>, ProjectionHead(<<"brain_projection">>, use_lora)),
               Child(<<"xlnet">>, IF use_lora THEN add_lora_to_xlnet(xlnet) ELSE xlnet) >>)

\* what BrainTranslator(xlnet, use_lora=...) can end in: an exception, or
\* the object.  params is named_parameters() of the finished tree, which no
\* method changes afterwards.
BrainTranslatorInit(use_lora, in_feature, bound, xlnet) ==
    IF use_lora /\ ~bound
    THEN {[exc |-> "NameError", obj |-> NoObject]}
    ELSE LET outs == IF use_lora
                     THEN LoopOutcomes(TransformerEncoderLayer(<<"encoder_layer">>))
                     ELSE {[raises |-> FALSE, missed |-> {}]}
         IN  {IF o.raises
              THEN [exc |-> "RuntimeError", obj |-> NoObject]
              ELSE LET tree == BrainTranslatorTree(use_lora, o.missed, xlnet)
                   IN  [exc |-> None,
                        obj |-> [built |-> TRUE,
                                 use_lora |-> use_lora,
                                 in_feature |-> in_feature,
                                 tree |-> tree,
                                 params |-> NamedParameters(tree)]]
              : o \in outs}

(***************************************************************************)
(* Tests on parameter names.  A name is the sequence of its '.'-separated  *)
(* parts.  None of the patterns the program looks for holds a '.', so a    *)
(* pattern occurs in a name exactly when it occurs in one of its parts;    *)
(* Spells says which parts of the names of this program spell a pattern.   *)
(***************************************************************************)
Spells(part, pat) ==
    CASE pat = "lora"   -> part \in {"lora", "lora_A", "lora_B"}
      [] pat = "lora_A" -> part = "lora_A"
      [] pat = "lora_B" -> part = "lora_B"
      [] pat = "xlnet"  -> part = "xlnet"

\* pat in name
In(pat, name) == \E i \in 1..Len(name) : Spells(name[i], pat)

Range(seq) == {seq[i] : i \in 1..Len(seq)}

Ids(params) == {params[i].id : i \in 1..Len(params)}

(***************************************************************************)
(* Variants of the three operations below, each differing from the source  *)
(* in one place.  The properties of C1, C2 and C3 fail on them.            *)
(***************************************************************************)
\* get_lora_params with the test  'lora_A' in name  alone
get_lora_params_lora_A_only(obj) ==
    IF ~obj.use_lora THEN <<>>
    ELSE LET IsLora(p) == In("lora_A", p.name)
             lora_params == SelectSeq(obj.params, IsLora)
         IN  [k \in 1..Len(lora_params) |-> lora_params[k].id]

\* freeze_pretrained_xlnet without the test  'lora' not in name
freeze_pretrained_xlnet_untested(obj, grad) ==
    grad \ Ids(obj.params)

\* freeze_pretrained_brain with the test  'lora' in name  alone
freeze_pretrained_brain_lora_only(obj, grad) ==
    (grad \ Ids(obj.params))
    \cup {p.id : p \in {q \in Range(obj.params) : In("lora", q.name)}}

\* BrainTranslator.get_lora_params: the list it returns (parameter ids)
get_lora_params(obj) ==
    IF ~obj.use_lora THEN <<>>
    ELSE LET IsLora(p) == In("lora_A", p.name) \/ In("lora_B", p.name)
             lora_params == SelectSeq(obj.params, IsLora)
         IN  [k \in 1..Len(lora_params) |-> lora_params[k].id]

\* BrainTranslator.freeze_pretrained_xlnet: requires_grad after the loop
freeze_pretrained_xlnet(obj, grad) ==
    grad \ {p.id : p \in {q \in Range(obj.params) : ~In("lora", q.name)}}

\* BrainTranslator.freeze_pretrained_brain: requires_grad after the loop
freeze_pretrained_brain(obj, grad) ==
    (grad \ Ids(obj.params))
    \cup {p.id : p \in {q \in Range(obj.params) :
                           In("xlnet", q.name) /\ In("lora", q.name)}}

\* what the caller can call requires_grad_ on: a child of the model, or its
\* own parameter pos_embedding; the parameters below a target are those
\* whose name starts with the target's key
FlipTargets(obj) ==
    {obj.tree.children[i].key[1] : i \in 1..Len(obj.tree.children)}
    \cup Range(obj.tree.params)

Below(obj, target) == {p.id : p \in {q \in Range(obj.params) : q.name[1] = target}}

(***************************************************************************)
(* Tensors.  A tensor has a shape and, for every index, a description of   *)
(* the element there (at).  An axis in dense stands for a whole axis of    *)
(* features or channels: its size is in the shape, its index is always 0   *)
(* and the description is that of the whole run of elements along it.  No  *)
(* dense axis has size 1.  Indices and positions of axes count from 0 in   *)
(* the program and from 1 in the sequences here.  A function of the        *)
(* program that can raise gives [exc |-> the exception, t |-> the result]. *)
(*                                                                         *)
(* Only({f(x) : x \in {e}}) is f(e) with e worked out once, however often  *)
(* f uses it.                                                              *)
(***************************************************************************)
Only(S) == CHOOSE x \in S : TRUE

RECURSIVE Tuples(_)
Tuples(sizes) ==
    IF sizes = <<>> THEN {<<>>}
    ELSE {<<i>> \o t : i \in 0..(sizes[1] - 1), t \in Tuples(Tail(sizes))}

Rank(t) == Len(t.shape)

\* the index set of a tensor of this shape with these dense axes
Indices(shape, dense) ==
    Tuples([k \in 1..Len(shape) |-> IF k \in dense THEN 1 ELSE shape[k]])

Tensor(shape, dense, at) == [shape |-> shape, dense |-> dense, at |-> at]

Ok(t) == [exc |-> None, t |-> t]

Raise(e) == [exc |-> e, t |-> NoValue]

\* torch.squeeze(x): every axis of size 1 goes
Squeeze(x) ==
    Only({LET keep == SelectSeq([k \in 1..Rank(t) |-> k], LAMBDA k : t.shape[k] # 1)
              shape == [j \in 1..Len(keep) |-> t.shape[keep[j]]]
              dense == {j \in 1..Len(keep) : keep[j] \in t.dense}
              old(i) == [k \in 1..Rank(t) |->
                           IF t.shape[k] = 1 THEN 0
                           ELSE i[CHOOSE j \in 1..Len(keep) : keep[j] = k]]
          IN  Tensor(shape, dense, [i \in Indices(shape, dense) |-> t.at[old(i)]])
            : t \in {x}})

\* torch.unsqueeze(x, dim), 0 <= dim <= rank
Unsqueeze(x, dim) ==
    Only({LET shape == [k \in 1..(Rank(t) + 1) |->
                          IF k <= dim THEN t.shape[k]
                          ELSE IF k = dim + 1 THEN 1 ELSE t.shape[k - 1]]
              dense == {k \in 1..(Rank(t) + 1) :
                          \/ k <= dim /\ k \in t.dense
                          \/ k > dim + 1 /\ (k - 1) \in t.dense}
              old(i) == [k \in 1..Rank(t) |-> IF k <= dim THEN i[k] ELSE i[k + 1]]
          IN  Tensor(shape, dense, [i \in Indices(shape, dense) |-> t.at[old(i)]])
            : t \in {x}})

\* x[i,:,:]: three indices want three axes
Select(x, i) ==
    Only({IF Rank(t) # 3 THEN Raise("IndexError")
          ELSE IF 1 \in t.dense \/ i >= t.shape[1] THEN Raise("IndexError")
          ELSE LET shape == Tail(t.shape)
                   dense == {k - 1 : k \in t.dense}
               IN  Ok(Tensor(shape, dense,
                             [j \in Indices(shape, dense) |-> t.at[<<i>> \o j]]))
            : t \in {x}})

\* torch.swapaxes(x, 1, 2)
Swapaxes12(x) ==
    Only({LET sw(k) == IF k = 2 THEN 3 ELSE IF k = 3 THEN 2 ELSE k
              shape == [k \in 1..Rank(t) |-> t.shape[sw(k)]]
              dense == {k \in 1..Rank(t) : sw(k) \in t.dense}
          IN  IF Rank(t) < 3 THEN Raise("IndexError")
              ELSE Ok(Tensor(shape, dense,
                             [i \in Indices(shape, dense) |->
                                t.at[[k \in 1..Rank(t) |-> i[sw(k)]]]]))
            : t \in {x}})

\* torch.stack(xs, 0) of a list: the tensors must agree in shape
Stack(xs) ==
    Only({IF ts = <<>> \/ \E k \in 1..Len(ts) : ts[k].shape # ts[1].shape
          THEN Raise("RuntimeError")
          ELSE LET shape == <<Len(ts)>> \o ts[1].shape
                   dense == {k + 1 : k \in ts[1].dense}
               IN  Ok(Tensor(shape, dense,
                             [i \in Indices(shape, dense) |-> ts[i[1] + 1].at[Tail(i)]]))
            : ts \in {xs}})

\* whether two shapes go together: aligned at the last axis, two sizes go
\* together when they are equal or one of them is 1
Broadcastable(sa, sb) ==
    LET r == IF Len(sa) >= Len(sb) THEN Len(sa) ELSE Len(sb)
        size(s, k) == IF k > r - Len(s) THEN s[k - (r - Len(s))] ELSE 1
    IN  \A k \in 1..r : size(sa, k) = size(sb, k) \/ size(sa, k) = 1 \/ size(sb, k) = 1

\* x + y with broadcasting
Add(x, y) ==
    Only({LET r == IF Rank(a) >= Rank(b) THEN Rank(a) ELSE Rank(b)
              size(t, k) == IF k > r - Rank(t) THEN t.shape[k - (r - Rank(t))] ELSE 1
              isdense(t, k) == k > r - Rank(t) /\ (k - (r - Rank(t))) \in t.dense
              part(t, i) == [k \in 1..Rank(t) |->
                               IF t.shape[k] = 1 THEN 0 ELSE i[k + (r - Rank(t))]]
              shape == [k \in 1..r |-> IF size(a, k) = 1 THEN size(b, k) ELSE size(a, k)]
              dense == {k \in 1..r : isdense(a, k) \/ isdense(b, k)}
          IN  IF ~Broadcastable(a.shape, b.shape) THEN Raise("RuntimeError")
              ELSE Ok(Tensor(shape, dense,
                             [i \in Indices(shape, dense) |->
                                [op |-> <<"add">>, a |-> a.at[part(a, i)],
                                 b |-> b.at[part(b, i)]]]))
            : a \in {x}, b \in {y}})

\* a function that works along the last axis and leaves it with size out
AlongLast(name, x, out) ==
    Only({Tensor([k \in 1..Rank(t) |-> IF k = Rank(t) THEN out ELSE t.shape[k]],
                 t.dense,
                 [i \in DOMAIN t.at |-> [op |-> name, of |-> t.at[i]]])
            : t \in {x}})

(***************************************************************************)
(* The forward passes, on shapes.  What a layer computes along the feature *)
(* axis is kept as a description; what decides the shape of the result and *)
(* whether the call raises is computed as the program computes it.  A      *)
(* layer is named by the path of attributes that leads to it.              *)
(***************************************************************************)
\* self.hidden_dim = 512
HiddenDim == 512
\* is_bidirectional=True: a bidirectional GRU puts out both directions
Directions == 2
\* nn.Conv1d(1, 64, 1, stride=1): out_channels; torch.randn(64, 1)
Channels == 64
\* torch.randn(1, 56, in_feature)
PosLen == 56
\* decoder_embedding_size=768
DecoderEmbeddingSize == 768

\* the output of the GRU for word w of sentence b at the word's last step:
\* lstm_outs[int(lenghts_sentence[i]-1), i, :]
WordVector(b, w) ==
    Tensor(<<HiddenDim * Directions>>, {1}, [i \in {<<0>>} |-> [sentence |-> b, word |-> w]])

\* FeatureEmbedded.forward on a batch of B sentences of W words each
FeatureEmbedded_forward(B, W) ==
    Only({IF stacked.exc # None THEN stacked ELSE Ok(Squeeze(stacked.t))
            : stacked \in {Stack([b \in 1..B |->
                                    Stack([w \in 1..W |-> WordVector(b - 1, w - 1)]).t])}})

\* nn.Linear(in_features, out_features) on x
Linear_forward(name, x, in_features, out_features) ==
    Only({IF Rank(t) = 0 \/ t.shape[Rank(t)] # in_features THEN Raise("RuntimeError")
          ELSE Ok(AlongLast(name, t, out_features))
            : t \in {x}})

\* LoRALinear.forward on x: (lora_B @ lora_A @ x.T).T * scaling.  x.T turns
\* the order of all axes round.  lora_B @ lora_A is (out, in); for x of rank
\* 3 the product with x.T is taken per leading index of x.T, on matrices of
\* shape (x.shape[1], x.shape[0]), so x.shape[1] must be in_features.
LoRALinear_forward(name, x, in_features, out_features) ==
    Only({IF Rank(t) \in {1, 2}
          THEN Linear_forward(name, t, in_features, out_features)
          ELSE IF Rank(t) # 3 \/ t.shape[2] # in_features THEN Raise("RuntimeError")
          ELSE Swapaxes12(AlongLast(name, Swapaxes12(t).t, out_features))
            : t \in {x}})

\* LoRALayer.forward on x: self.base_layer(x) + self.lora(x)
LoRALayer_forward(name, x, in_features, out_features) ==
    Only({IF base.exc # None THEN base
          ELSE Only({IF lora.exc # None THEN lora ELSE Add(base.t, lora.t)
                       : lora \in {LoRALinear_forward(name \o <<"lora">>, t,
                                                      in_features, out_features)}})
            : t \in {x},
              base \in {Linear_forward(name \o <<"base_layer">>, x,
                                       in_features, out_features)}})

\* a linear sublayer, wrapped or not
Sublayer_forward(name, x, use_lora, in_features, out_features) ==
    IF use_lora THEN LoRALayer_forward(name, x, in_features, out_features)
    ELSE Linear_forward(name, x, in_features, out_features)

\* lines 74-77 of ProjectionHead.forward
ProjectionHead_rest(name, projected, use_lora, projection_dim) ==
    Only({IF fc.exc # None THEN fc
          ELSE Add(AlongLast(name \o <<"dropout">>, fc.t, projection_dim), projected)
            : fc \in {Sublayer_forward(name \o <<"fc">>,
                                       AlongLast(name \o <<"gelu">>, projected, projection_dim),
                                       use_lora, projection_dim, projection_dim)}})

\* ProjectionHead.forward on x
ProjectionHead_forward(name, x, use_lora, embedding_dim, projection_dim) ==
    Only({IF projected.exc # None THEN projected
          ELSE ProjectionHead_rest(name, projected.t, use_lora, projection_dim)
            : projected \in {Sublayer_forward(name \o <<"projection">>, x, use_lora,
                                              embedding_dim, projection_dim)}})

\* self.conv1d_point on x of shape (N, C, L): C must be in_channels = 1
Conv1d_point(x) ==
    Only({IF Rank(t) # 3 \/ t.shape[2] # 1 THEN Raise("RuntimeError")
          ELSE Ok(Tensor(<<t.shape[1], Channels, t.shape[3]>>, t.dense \cup {2},
                         [i \in DOMAIN t.at |-> [op |-> <<"conv1d_point">>, of |-> t.at[i]]]))
            : t \in {x}})

\* torch.matmul(x, mat_subject): mat_subject is (64, 1)
Matmul_subject(x, index) ==
    Only({IF Rank(t) = 0 \/ t.shape[Rank(t)] # Channels THEN Raise("RuntimeError")
          ELSE Ok(Tensor([k \in 1..Rank(t) |-> IF k = Rank(t) THEN 1 ELSE t.shape[k]],
                         t.dense \ {Rank(t)},
                         [i \in DOMAIN t.at |->
                            [op |-> <<"matmul">>, subject |-> index, of |-> t.at[i]]]))
            : t \in {x}})

\* SUBJECTS
SUBJECTS ==
    <<"ZAB", "ZDM", "ZDN", "ZGW", "ZJM", "ZJN", "ZJS", "ZKB", "ZKH", "ZKW", "ZMG", "ZPH",
      "YSD", "YFS", "YMD", "YAC", "YFR", "YHS", "YLS", "YDG", "YRH", "YRK", "YMS", "YIS",
      "YTL", "YSL", "YRP", "YAG", "YDR", "YAK">>

\* self.subjects_map_id = {subject: idx for idx, subject in enumerate(SUBJECTS)}:
\* a code listed twice would keep the index of its last place
subjects_map_id ==
    [subject \in Range(SUBJECTS) |->
        (CHOOSE idx \in 1..Len(SUBJECTS) :
            /\ SUBJECTS[idx] = subject
            /\ \A j \in 1..Len(SUBJECTS) : SUBJECTS[j] = subject => j <= idx) - 1]

\* self.subject_matrices: one parameter for every place of SUBJECTS
subject_matrices == [k \in 1..Len(SUBJECTS) |-> [param |-> <<"subject_matrices", k - 1>>]]

\* self.pos_embedding
PosEmbedding(in_feature) ==
    Tensor(<<1, PosLen, in_feature>>, {3},
           [i \in Indices(<<1, PosLen, in_feature>>, {3}) |->
              [op |-> <<"pos_embedding">>, word |-> i[2]]])

\* lines 201-203 of forward for sample i: the slice, a channel axis put in,
\* the convolution, the axes swapped
SubjectInput(encoded_embedding, i) ==
    Only({IF row.exc # None THEN [exc |-> row.exc, line |-> 201, t |-> NoValue]
          ELSE Only({IF conv.exc # None THEN [exc |-> conv.exc, line |-> 202, t |-> NoValue]
                     ELSE Only({[exc |-> swapped.exc, line |-> 203, t |-> swapped.t]
                                  : swapped \in {Swapaxes12(conv.t)}})
                       : conv \in {Conv1d_point(Unsqueeze(row.t, 1))}})
            : row \in {Select(encoded_embedding, i)}})

\* lines 204-206 of forward for sample i, tmp being what line 203 left
SubjectMix(tmp, subject_batch, i) ==
    IF i + 1 > Len(subject_batch) THEN [exc |-> "IndexError", line |-> 204, t |-> NoValue]
    ELSE IF subject_batch[i + 1] \notin DOMAIN subjects_map_id
         THEN [exc |-> "KeyError", line |-> 204, t |-> NoValue]
    ELSE IF subjects_map_id[subject_batch[i + 1]] + 1 > Len(subject_matrices)
         THEN [exc |-> "IndexError", line |-> 204, t |-> NoValue]
    ELSE Only({IF mixed.exc # None THEN [exc |-> mixed.exc, line |-> 205, t |-> NoValue]
               ELSE [exc |-> None, line |-> 206, t |-> Squeeze(mixed.t)]
                 : mixed \in {Matmul_subject(tmp, subjects_map_id[subject_batch[i + 1]])}})

\* lines 200-207 of forward from sample i on: the list the loop builds, the
\* subject codes it looks up, and the exception that ends it, if any, with
\* the line that raises it
RECURSIVE SubjectLoop(_, _, _, _, _)
SubjectLoop(encoded_embedding, subject_batch, i, list, looked_up) ==
    IF i >= encoded_embedding.shape[1]
    THEN [exc |-> None, line |-> 207, list |-> list, looked_up |-> looked_up]
    ELSE
    Only({IF tmp.exc # None
          THEN [exc |-> tmp.exc, line |-> tmp.line, list |-> list, looked_up |-> looked_up]
          ELSE Only({IF mixed.exc # None
                     THEN [exc |-> mixed.exc, line |-> mixed.line, list |-> list,
                           looked_up |-> IF i + 1 > Len(subject_batch) THEN looked_up
                                         ELSE Append(looked_up, subject_batch[i + 1])]
                     ELSE Only({SubjectLoop(encoded_embedding, subject_batch, i + 1, l, s)
                                  : l \in {Append(list, mixed.t)},
                                    s \in {Append(looked_up, subject_batch[i + 1])}})
                       : mixed \in {SubjectMix(tmp.t, subject_batch, i)}})
            : tmp \in {SubjectInput(encoded_embedding, i)}})

\* the layers the encoder stack runs: self.encoder.layers[i]
EncoderLayerAt(obj, i) ==
    GetAt(obj.tree, << <<"encoder">>, <<"layers">>, <<ToString(i)>> >>)

\* whether a feed-forward sublayer of the encoder stack is wrapped
EncoderAdapted(obj) ==
    \E i \in 0..(NumLayers - 1) : \E key \in {"linear1", "linear2"} :
        GetChild(EncoderLayerAt(obj, i), <<key>>).kind = "LoRALayer"

\* self.encoder(x, src_key_padding_mask=input_masks_invert): x is
\* (batch, words, d_model) and the mask (batch, words); a wrapped
\* feed-forward sublayer is a LoRALayer called on x of rank 3
Encoder_forward(obj, x, mask_shape) ==
    Only({IF Rank(t) # 3 \/ t.shape[3] # obj.in_feature THEN Raise("RuntimeError")
          ELSE IF <<t.shape[1], t.shape[2]>> # mask_shape THEN Raise("AssertionError")
          ELSE IF t.shape[2] # obj.in_feature /\ EncoderAdapted(obj)
               THEN Raise("RuntimeError")
          ELSE Ok(AlongLast(<<"encoder">>, t, obj.in_feature))
            : t \in {x}})

\* self.layernorm_embedding(x): normalises over a last axis of in_feature
LayerNorm_forward(obj, x) ==
    Only({IF Rank(t) = 0 \/ t.shape[Rank(t)] # obj.in_feature THEN Raise("RuntimeError")
          ELSE Ok(AlongLast(<<"layernorm_embedding">>, t, obj.in_feature))
            : t \in {x}})

\* self.xlnet.get_input_embeddings()(word_contents_batch): one vector of the
\* decoder's width per token of the (batch, words) tensor of token ids
WordEmbeddings(a) ==
    Tensor(<<a.batch, a.max_words, DecoderEmbeddingSize>>, {3},
           [i \in Indices(<<a.batch, a.max_words, DecoderEmbeddingSize>>, {3}) |->
              [op |-> <<"xlnet", "word_embedding">>, token |-> <<i[1], i[2]>>]])

\* nn.MSELoss()(input, target): the mean over the broadcast difference
MSELoss(input, target) ==
    Only({IF ~Broadcastable(x.shape, y.shape) THEN Raise("RuntimeError")
          ELSE Ok([kind |-> "mse_loss", input |-> x, target |-> y])
            : x \in {input}, y \in {target}})

\* self.xlnet(inputs_embeds=..., attention_mask=..., labels=...): the
\* decoder takes (batch, words, d_model) and a mask of (batch, words)
Xlnet_forward(inputs_embeds, mask_shape) ==
    Only({IF \/ Rank(t) # 3
             \/ t.shape[3] # DecoderEmbeddingSize
             \/ <<t.shape[1], t.shape[2]>> # mask_shape
          THEN Raise("RuntimeError")
          ELSE Ok([kind |-> "logits", of |-> t])
            : t \in {inputs_embeds}})

\* the call of line 225 as the decoder receives it
DecoderCall(brain_embedding) ==
    [fn |-> "forward",
     args |-> [inputs_embeds |-> brain_embedding,
               attention_mask |-> "input_masks_batch",
               labels |-> "target_ids_batch_converted"]]

\* the call of line 221 as the decoder receives it
EmbeddingCall ==
    [fn |-> "get_input_embeddings", args |-> [input |-> "word_contents_batch"]]

\* ModeSwitch with the decoder run in the first mode as well; the property
\* of C9 fails on it
ModeSwitch_decoder_in_stepone(a, brain_embedding) ==
    Only({IF a.stepone
          THEN Only({[exc |-> loss.exc, ret |-> loss.t,
                      calls |-> <<EmbeddingCall, DecoderCall(b)>>, line |-> 223]
                       : loss \in {MSELoss(b, WordEmbeddings(a))}})
          ELSE IF outputs.exc # None
          THEN [exc |-> outputs.exc, ret |-> NoValue,
                calls |-> <<DecoderCall(b)>>, line |-> 225]
          ELSE IF a.features
          THEN [exc |-> None,
                ret |-> [kind |-> "tuple", items |-> <<outputs.t, b>>],
                calls |-> <<DecoderCall(b)>>, line |-> 230]
          ELSE [exc |-> None, ret |-> outputs.t,
                calls |-> <<DecoderCall(b)>>, line |-> 232]
            : b \in {brain_embedding},
              outputs \in {Xlnet_forward(brain_embedding, <<a.batch, a.max_words>>)}})

\* lines 220-232 of forward: the exception or the value it ends with, the
\* calls it makes on the decoder and the line it ends on
ModeSwitch(a, brain_embedding) ==
    IF a.stepone
    THEN Only({[exc |-> loss.exc, ret |-> loss.t, calls |-> <<EmbeddingCall>>, line |-> 223]
                 : loss \in {MSELoss(brain_embedding, WordEmbeddings(a))}})
    ELSE Only({IF outputs.exc # None
               THEN [exc |-> outputs.exc, ret |-> NoValue,
                     calls |-> <<DecoderCall(b)>>, line |-> 225]
               ELSE IF a.features
               THEN [exc |-> None,
                     ret |-> [kind |-> "tuple", items |-> <<outputs.t, b>>],
                     calls |-> <<DecoderCall(b)>>, line |-> 230]
               ELSE [exc |-> None, ret |-> outputs.t,
                     calls |-> <<DecoderCall(b)>>, line |-> 232]
                 : b \in {brain_embedding},
                   outputs \in {Xlnet_forward(brain_embedding, <<a.batch, a.max_words>>)}})

\* the local variables of forward before its first line (line: the line
\* the call has come to; feature_embedded: what self.feature_embedded
\* returned)
NoLocals ==
    [line |-> 0, feature_embedded |-> NoValue, feature_embedding |-> NoValue,
     encoded_embedding |-> NoValue, looked_up |-> <<>>,
     encoded_embedding_subject |-> NoValue, brain_embedding |-> NoValue]

\* a call that ends at this line with this exception
Fail(s, line, e) == [s EXCEPT !.exc = e, !.locals.line = line]

\* lines 193-195 of forward
Forward193(a) ==
    Only({IF fe.exc # None
          THEN [exc |-> fe.exc, ret |-> NoValue, calls |-> <<>>,
                locals |-> [NoLocals EXCEPT !.line = 193]]
          ELSE [exc |-> None, ret |-> NoValue, calls |-> <<>>,
                locals |-> [NoLocals EXCEPT
                              !.line = 195,
                              !.feature_embedded = fe.t,
                              !.feature_embedding =
                                  IF Rank(fe.t) = 2 THEN Unsqueeze(fe.t, 0) ELSE fe.t]]
            : fe \in {FeatureEmbedded_forward(a.batch, a.max_words)}})

\* line 196 of forward
Forward196(obj, s0) ==
    Only({IF s.exc # None THEN s
          ELSE Only({IF r.exc # None THEN Fail(s, 196, r.exc)
                     ELSE [s EXCEPT !.locals.line = 196, !.locals.encoded_embedding = r.t]
                       : r \in {ProjectionHead_forward(<<"fc">>, s.locals.feature_embedding,
                                    obj.use_lora, obj.in_feature, obj.in_feature)}})
            : s \in {s0}})

\* lines 209-212 of forward
Forward209(s, loop) ==
    Only({IF r.exc # None
          THEN [s EXCEPT !.exc = r.exc, !.locals.line = 212,
                         !.locals.looked_up = loop.looked_up]
          ELSE [s EXCEPT !.locals.line = 212, !.locals.looked_up = loop.looked_up,
                         !.locals.encoded_embedding_subject = r.t]
            : r \in {IF Len(loop.list) = 1 THEN Ok(Unsqueeze(loop.list[1], 0))
                     ELSE Stack(loop.list)}})

\* lines 199-212 of forward
Forward199(a, s0) ==
    Only({IF s.exc # None THEN s
          ELSE Only({IF loop.exc # None
                     THEN [s EXCEPT !.exc = loop.exc, !.locals.line = loop.line,
                                    !.locals.looked_up = loop.looked_up]
                     ELSE Forward209(s, loop)
                       : loop \in {SubjectLoop(s.locals.encoded_embedding,
                                               a.subject_batch, 0, <<>>, <<>>)}})
            : s \in {s0}})

\* line 214 of forward
Forward214(obj, s0) ==
    Only({IF s.exc # None THEN s
          ELSE Only({IF r.exc # None THEN Fail(s, 214, r.exc)
                     ELSE [s EXCEPT !.locals.line = 214, !.locals.brain_embedding = r.t]
                       : r \in {Add(s.locals.encoded_embedding_subject,
                                    PosEmbedding(obj.in_feature))}})
            : s \in {s0}})

\* line 215 of forward
Forward215(obj, a, s0) ==
    Only({IF s.exc # None THEN s
          ELSE Only({IF r.exc # None THEN Fail(s, 215, r.exc)
                     ELSE [s EXCEPT !.locals.line = 215, !.locals.brain_embedding = r.t]
                       : r \in {Encoder_forward(obj, s.locals.brain_embedding,
                                                <<a.batch, a.max_words>>)}})
            : s \in {s0}})

\* line 216 of forward
Forward216(obj, s0) ==
    Only({IF s.exc # None THEN s
          ELSE Only({IF r.exc # None THEN Fail(s, 216, r.exc)
                     ELSE [s EXCEPT !.locals.line = 216, !.locals.brain_embedding = r.t]
                       : r \in {LayerNorm_forward(obj, s.locals.brain_embedding)}})
            : s \in {s0}})

\* line 218 of forward
Forward218(obj, s0) ==
    Only({IF s.exc # None THEN s
          ELSE Only({IF r.exc # None THEN Fail(s, 218, r.exc)
                     ELSE [s EXCEPT !.locals.line = 218, !.locals.brain_embedding = r.t]
                       : r \in {ProjectionHead_forward(<<"brain_projection">>,
                                    s.locals.brain_embedding, obj.use_lora,
                                    obj.in_feature, DecoderEmbeddingSize)}})
            : s \in {s0}})

\* lines 220-232 of forward
Forward220(a, s0) ==
    Only({IF s.exc # None THEN s
          ELSE Only({[s EXCEPT !.exc = out.exc, !.ret = out.ret, !.calls = out.calls,
                               !.locals.line = out.line]
                       : out \in {ModeSwitch(a, s.locals.brain_embedding)}})
            : s \in {s0}})

\* BrainTranslator.forward: the exception or the value it ends with, its
\* local variables at that point and its calls on the decoder
forward(obj, a) ==
    Forward220(a,
      Forward218(obj,
        Forward216(obj,
          Forward215(obj, a,
            Forward214(obj,
              Forward199(a,
                Forward196(obj,
                  Forward193(a))))))))

(***************************************************************************)
(* The arithmetic of LoRALinear, LoRALayer and ProjectionHead.  Tensors    *)
(* here have no dense axis and hold numbers.  A number is an integer count *)
(* of Unit-ths: the inputs and the biases are whole numbers, the weights   *)
(* whole multipliers, GELU is taken to three decimals, and Unit is a       *)
(* multiple of 9 and of 4 so that the division by 1 - p that dropout makes *)
(* for p = 0.1 and p = 0.2 comes out even.                                 *)
(***************************************************************************)
Unit == 36 * 1000

\* width of the layers, and rows of an input
Dim == 2
MaxRows == 2

RECURSIVE SumSeq(_)
SumSeq(s) == IF s = <<>> THEN 0 ELSE Head(s) + SumSeq(Tail(s))

Reverse(s) == [k \in 1..Len(s) |-> s[Len(s) + 1 - k]]

Front(s) == SubSeq(s, 1, Len(s) - 1)

Numbers(shape, at) == [shape |-> shape, dense |-> {}, at |-> at]

\* the matrix with these rows
Matrix(rows) ==
    Numbers(<<Len(rows), Len(rows[1])>>,
            [i \in Indices(<<Len(rows), Len(rows[1])>>, {}) |-> rows[i[1] + 1][i[2] + 1]])

\* x.T: the axes in reverse order
Transpose(x) ==
    Only({Numbers(Reverse(t.shape),
                  [i \in Indices(Reverse(t.shape), {}) |-> t.at[Reverse(i)]])
            : t \in {x}})

\* a @ b for a matrix a: with a vector, with a matrix, and with a tensor of
\* rank 3, where the product is taken with each matrix b[j]
MatMul(x, y) ==
    Only({LET inner == IF Rank(b) = 1 THEN b.shape[1]
                       ELSE IF Rank(b) = 2 THEN b.shape[1] ELSE b.shape[2]
              shape == IF Rank(b) = 1 THEN <<a.shape[1]>>
                       ELSE IF Rank(b) = 2 THEN <<a.shape[1], b.shape[2]>>
                       ELSE <<b.shape[1], a.shape[1], b.shape[3]>>
              row(i) == IF Rank(b) = 3 THEN i[2] ELSE i[1]
              col(i, k) == IF Rank(b) = 1 THEN <<k>>
                           ELSE IF Rank(b) = 2 THEN <<k, i[2]>>
                           ELSE <<i[1], k, i[3]>>
          IN  IF Rank(a) # 2 \/ Rank(b) \notin {1, 2, 3} \/ a.shape[2] # inner
              THEN Raise("RuntimeError")
              ELSE Ok(Numbers(shape,
                              [i \in Indices(shape, {}) |->
                                 SumSeq([k \in 1..inner |->
                                           a.at[<<row(i), k - 1>>] * b.at[col(i, k - 1)]])]))
            : a \in {x}, b \in {y}})

\* x + y with broadcasting
Plus(x, y) ==
    Only({LET r == IF Rank(a) >= Rank(b) THEN Rank(a) ELSE Rank(b)
              size(t, k) == IF k > r - Rank(t) THEN t.shape[k - (r - Rank(t))] ELSE 1
              part(t, i) == [k \in 1..Rank(t) |->
                               IF t.shape[k] = 1 THEN 0 ELSE i[k + (r - Rank(t))]]
              shape == [k \in 1..r |-> IF size(a, k) = 1 THEN size(b, k) ELSE size(a, k)]
          IN  IF ~Broadcastable(a.shape, b.shape) THEN Raise("RuntimeError")
              ELSE Ok(Numbers(shape,
                              [i \in Indices(shape, {}) |->
                                 a.at[part(a, i)] + b.at[part(b, i)]]))
            : a \in {x}, b \in {y}})

\* x * scaling
Times(x, scaling) ==
    Only({Numbers(t.shape, [i \in DOMAIN t.at |-> t.at[i] * scaling]) : t \in {x}})

\* nn.Linear: x @ weight.T + bias along the last axis of x
Linear_apply(lin, x) ==
    Only({LET shape == [k \in 1..Rank(t) |->
                          IF k = Rank(t) THEN lin.weight.shape[1] ELSE t.shape[k]]
          IN  IF Rank(t) = 0 \/ t.shape[Rank(t)] # lin.weight.shape[2]
              THEN Raise("RuntimeError")
              ELSE Ok(Numbers(shape,
                              [i \in Indices(shape, {}) |->
                                 SumSeq([k \in 1..lin.weight.shape[2] |->
                                           t.at[Front(i) \o <<k - 1>>]
                                           * lin.weight.at[<<i[Rank(t)], k - 1>>]])
                                 + lin.bias[i[Rank(t)] + 1]]))
            : t \in {x}})

\* LoRALinear.forward: (self.lora_B @ self.lora_A @ x.T).T * self.scaling
LoRALinear_apply(lora, x) ==
    Only({IF BA.exc # None THEN BA
          ELSE Only({IF BAx.exc # None THEN BAx
                     ELSE Ok(Times(Transpose(BAx.t), lora.scaling))
                       : BAx \in {MatMul(BA.t, Transpose(x))}})
            : BA \in {MatMul(lora.lora_B, lora.lora_A)}})

\* LoRALayer.forward: self.base_layer(x) + self.lora(x)
LoRALayer_apply(net0, x) ==
    Only({IF base.exc # None THEN base
          ELSE Only({IF lora.exc # None THEN lora ELSE Plus(base.t, lora.t)
                       : lora \in {LoRALinear_apply(net0.lora, x)}})
            : base \in {Linear_apply(net0.base_layer, x)}})

\* a stage of the head: an nn.Linear or a LoRALayer around one
Apply(stage, x) ==
    IF stage.class = "LoRALayer" THEN LoRALayer_apply(stage, x) ELSE Linear_apply(stage, x)

\* GELU of a whole number k, in thousandths
GeluMilli(k) ==
    CASE k <= -4 -> 0
      [] k = -3 -> -4
      [] k = -2 -> -46
      [] k = -1 -> -159
      [] k = 0 -> 0
      [] k = 1 -> 841
      [] k = 2 -> 1954
      [] k = 3 -> 2996
      [] k >= 4 -> 1000 * k

\* nn.GELU() on a tensor of whole numbers
Gelu(x) ==
    Only({Numbers(t.shape,
                  [i \in DOMAIN t.at |-> (Unit \div 1000) * GeluMilli(t.at[i] \div Unit)])
            : t \in {x}})

\* the elements a dropout mask keeps
Keeps(mask, i) ==
    CASE mask = "all" -> TRUE
      [] mask = "none" -> FALSE
      [] mask = "not_first" -> i[Len(i)] # 0
      [] mask = "even" -> SumSeq(i) % 2 = 0

Masks == {"all", "none", "not_first", "even"}

\* nn.Dropout(p) with p = tenths / 10: in training an element is zeroed or
\* divided by 1 - p; in evaluation nothing changes
Dropout(x, tenths, training, mask) ==
    Only({IF ~training THEN t
          ELSE Numbers(t.shape,
                       [i \in DOMAIN t.at |->
                          IF Keeps(mask, i) THEN (t.at[i] * 10) \div (10 - tenths) ELSE 0])
            : t \in {x}})


\* rank of the adapters built here; alpha is taken with the ratio of the
\* defaults, alpha / rank = 32 / 4
LoraRank == 1

LoraAlpha == 8 * LoraRank

\* nn.Linear(in_features, out_features): weights and biases as the random
\* initialisation may leave them, one of two kinds
NewLinear(kind, in_features, out_features) ==
    [class |-> "Linear",
     weight |-> Matrix([o \in 1..out_features |-> [i \in 1..in_features |->
                   IF kind = "a" THEN (IF i >= o THEN 1 ELSE 0)
                   ELSE (IF i = o THEN -1 ELSE 1)]]),
     bias |-> [o \in 1..out_features |-> IF kind = "a" THEN Unit ELSE -Unit]]

\* LoRALinear.__init__: lora_B is zero; lora_A gets what kaiming_uniform_
\* draws, here ones, unless the name math does not resolve on line 31
LoRALinear_init(in_features, out_features, rank, alpha, bound) ==
    IF ~bound THEN Raise("NameError")
    ELSE Ok([class |-> "LoRALinear",
             alpha |-> alpha,
             rank |-> rank,
             lora_A |-> Matrix([r \in 1..rank |-> [i \in 1..in_features |-> 1]]),
             lora_B |-> Matrix([o \in 1..out_features |-> [r \in 1..rank |-> 0]]),
             scaling |-> alpha \div rank])

\* LoRALayer.__init__: the base layer is kept as it is given
LoRALayer_init(base_layer, rank, alpha, bound) ==
    Only({IF lora.exc # None THEN lora
          ELSE Ok([class |-> "LoRALayer", base_layer |-> base_layer, lora |-> lora.t])
            : lora \in {LoRALinear_init(base_layer.weight.shape[2],
                                        base_layer.weight.shape[1], rank, alpha, bound)}})

\* a stage of ProjectionHead.__init__: lines 60-61, 63-64 or 66, 67
NewStage(kind, in_features, out_features, use_lora, bound) ==
    IF use_lora
    THEN LoRALayer_init(NewLinear(kind, in_features, out_features),
                        LoraRank, LoraAlpha, bound)
    ELSE Ok(NewLinear(kind, in_features, out_features))

\* ProjectionHead.__init__ with dropout = tenths / 10
ProjectionHead_init(embedding_dim, projection_dim, tenths, use_lora, kinds, bound) ==
    Only({IF projection.exc # None THEN projection
          ELSE IF fc.exc # None THEN fc
          ELSE Ok([class |-> "ProjectionHead", use_lora |-> use_lora,
                   projection |-> projection.t, fc |-> fc.t, dropout |-> tenths])
            : projection \in {NewStage(kinds[1], embedding_dim, projection_dim,
                                       use_lora, bound)},
              fc \in {NewStage(kinds[2], projection_dim, projection_dim, use_lora, bound)}})

\* ProjectionHead.forward with dropout taken before self.fc instead of
\* after it; the property of C7 fails on it
ProjectionHead_apply_dropout_first(head, training, x, mask) ==
    Only({IF projected.exc # None THEN projected
          ELSE Only({IF fc.exc # None THEN fc ELSE Plus(fc.t, projected.t)
                       : fc \in {Apply(head.fc,
                                       Dropout(Gelu(projected.t), head.dropout,
                                               training, mask))}})
            : projected \in {Apply(head.projection, x)}})

\* ProjectionHead.forward on x, mask being what the dropout draws
ProjectionHead_apply(head, training, x, mask) ==
    Only({IF projected.exc # None THEN projected
          ELSE Only({IF fc.exc # None THEN fc
                     ELSE Plus(Dropout(fc.t, head.dropout, training, mask), projected.t)
                       : fc \in {Apply(head.fc, Gelu(projected.t))}})
            : projected \in {Apply(head.projection, x)}})

(***************************************************************************)
(* The calls.                                                              *)
(***************************************************************************)
\* model = BrainTranslator(xlnet, in_feature=in_feature, use_lora=use_lora).
\* A new nn.Parameter has requires_grad True.
Construct(use_lora, in_feature) ==
    /\ ~self.built
    /\ \E o \in BrainTranslatorInit(use_lora, in_feature, math_bound, Xlnet(XlnetLayers)) :
          /\ exc' = o.exc
          /\ self' = o.obj
          /\ requires_grad' = IF o.exc = None THEN Ids(o.obj.params) ELSE {}
    /\ last' = "__init__"
    /\ ret' = NoValue
    /\ pre' = {}
    /\ UNCHANGED <<math_bound, flips, args, locals, calls, net>>

GetLoraParams ==
    /\ self.built
    /\ ret' = [kind |-> "list", items |-> get_lora_params(self)]
    /\ last' = "get_lora_params"
    /\ exc' = None
    /\ pre' = requires_grad
    /\ UNCHANGED <<math_bound, self, requires_grad, flips, args, locals, calls, net>>

FreezePretrainedXlnet ==
    /\ self.built
    /\ requires_grad' = freeze_pretrained_xlnet(self, requires_grad)
    /\ last' = "freeze_pretrained_xlnet"
    /\ exc' = None
    /\ ret' = NoValue
    /\ pre' = requires_grad
    /\ UNCHANGED <<math_bound, self, flips, args, locals, calls, net>>

FreezePretrainedBrain ==
    /\ self.built
    /\ requires_grad' = freeze_pretrained_brain(self, requires_grad)
    /\ last' = "freeze_pretrained_brain"
    /\ exc' = None
    /\ ret' = NoValue
    /\ pre' = requires_grad
    /\ UNCHANGED <<math_bound, self, flips, args, locals, calls, net>>

\* the caller's model.<target>.requires_grad_(flag)
RequiresGrad(target, flag) ==
    /\ self.built
    /\ flips < MaxFlips
    /\ target \in FlipTargets(self)
    /\ requires_grad' = IF flag THEN requires_grad \cup Below(self, target)
                        ELSE requires_grad \ Below(self, target)
    /\ flips' = flips + 1
    /\ last' = "requires_grad_"
    /\ exc' = None
    /\ ret' = NoValue
    /\ pre' = requires_grad
    /\ UNCHANGED <<math_bound, self, args, locals, calls, net>>

\* the caller has the next batch ready: B sentences of W words, one subject
\* code per sentence, and the two flags.  forward assigns no attribute of
\* the model, so a call does not depend on the calls before it; one call is
\* followed on each model.
NextBatch(B, W, subject_batch, stepone, features) ==
    /\ self.built
    /\ args = NoValue
    /\ args' = [kind |-> "batch", done |-> FALSE, batch |-> B, max_words |-> W,
                subject_batch |-> subject_batch, stepone |-> stepone,
                features |-> features]
    /\ last' = "batch"
    /\ exc' = None
    /\ ret' = NoValue
    /\ UNCHANGED <<math_bound, self, requires_grad, pre, flips, locals, calls, net>>

\* model(input_embeddings_batch, ..., stepone, subject_batch, device, features)
Forward ==
    /\ self.built
    /\ args # NoValue
    /\ ~args.done
    /\ LET out == forward(self, args)
       IN  /\ exc' = out.exc
           /\ ret' = out.ret
           /\ locals' = out.locals
           /\ calls' = out.calls
    /\ args' = [args EXCEPT !.done = TRUE]
    /\ last' = "forward"
    /\ UNCHANGED <<math_bound, self, requires_grad, pre, flips, net>>

\* layer = LoRALayer(nn.Linear(Dim, Dim))
NewLoRALayer(kind) ==
    /\ ~self.built /\ ~net.built
    /\ \E o \in {LoRALayer_init(NewLinear(kind, Dim, Dim), LoraRank, LoraAlpha, math_bound)} :
          /\ exc' = o.exc
          /\ net' = IF o.exc = None THEN [built |-> TRUE, training |-> TRUE, module |-> o.t]
                    ELSE NoObject
    /\ args' = [kind |-> "init", base_layer |-> NewLinear(kind, Dim, Dim)]
    /\ last' = "LoRALayer.__init__"
    /\ ret' = NoValue
    /\ UNCHANGED <<math_bound, self, requires_grad, pre, flips, locals, calls>>

\* head = ProjectionHead(Dim, Dim, dropout=tenths / 10, use_lora=use_lora)
NewProjectionHead(tenths, use_lora, kinds) ==
    /\ ~self.built /\ ~net.built
    /\ \E o \in {ProjectionHead_init(Dim, Dim, tenths, use_lora, kinds, math_bound)} :
          /\ exc' = o.exc
          /\ net' = IF o.exc = None THEN [built |-> TRUE, training |-> TRUE, module |-> o.t]
                    ELSE NoObject
    /\ args' = [kind |-> "init"]
    /\ last' = "ProjectionHead.__init__"
    /\ ret' = NoValue
    /\ UNCHANGED <<math_bound, self, requires_grad, pre, flips, locals, calls>>

\* net.train(mode): the mode nn.Dropout goes by, set before the call
Train(mode) ==
    /\ net.built
    /\ args.kind = "init"
    /\ net.training # mode
    /\ net' = [net EXCEPT !.training = mode]
    /\ last' = "train"
    /\ exc' = None
    /\ ret' = NoValue
    /\ UNCHANGED <<math_bound, self, requires_grad, pre, flips, args, locals, calls>>

\* layer(x).  Neither forward assigns an attribute of its module, so a call
\* does not depend on the calls before it; one call is followed on each
\* module.
LoRALayerForward(x) ==
    /\ net.built
    /\ args.kind = "init"
    /\ net.module.class = "LoRALayer"
    /\ \E o \in {LoRALayer_apply(net.module, x)} :
          /\ exc' = o.exc
          /\ ret' = o.t
    /\ args' = [kind |-> "forward", x |-> x]
    /\ last' = "LoRALayer.forward"
    /\ UNCHANGED <<math_bound, self, requires_grad, pre, flips, locals, calls, net>>

\* head(x), the dropout drawing mask
ProjectionHeadForward(x, mask) ==
    /\ net.built
    /\ args.kind = "init"
    /\ net.module.class = "ProjectionHead"
    /\ \E o \in {ProjectionHead_apply(net.module, net.training, x, mask)} :
          /\ exc' = o.exc
          /\ ret' = o.t
    /\ args' = [kind |-> "forward", x |-> x, mask |-> mask]
    /\ last' = "ProjectionHead.forward"
    /\ UNCHANGED <<math_bound, self, requires_grad, pre, flips, locals, calls, net>>

TopLevelNames ==
    {"feature_embedded", "fc", "conv1d_point", "subject_matrices", "encoder_layer",
     "encoder", "layernorm_embedding", "brain_projection", "xlnet", "pos_embedding"}

Init ==
    /\ math_bound \in BOOLEAN
    /\ self = NoObject
    /\ requires_grad = {}
    /\ exc = None
    /\ ret = NoValue
    /\ last = None
    /\ pre = {}
    /\ flips = 0
    /\ args = NoValue
    /\ locals = NoValue
    /\ calls = <<>>
    /\ net = NoObject

NextParams ==
    \/ \E use_lora \in BOOLEAN : Construct(use_lora, DefaultInFeature)
    \/ GetLoraParams
    \/ FreezePretrainedXlnet
    \/ FreezePretrainedBrain
    \/ \E target \in TopLevelNames, flag \in BOOLEAN : RequiresGrad(target, flag)

SpecParams == Init /\ [][NextParams]_vars

\* sentences in a batch, and words in a sentence besides the 56 the
\* positional embedding is made for
MaxBatch == 2
MaxWords == 2

WordCounts == (1..MaxWords) \cup {PosLen}

\* two configured subject codes and one that is not configured
Codes == {SUBJECTS[1], SUBJECTS[Len(SUBJECTS)], "XXX"}

\* in_feature as the caller may pass it: the default, and the width of the
\* feature encoder's output
InFeatures == {DefaultInFeature, HiddenDim * Directions}

NextForward ==
    \/ \E use_lora \in BOOLEAN, in_feature \in InFeatures : Construct(use_lora, in_feature)
    \/ \E B \in 1..MaxBatch, W \in WordCounts, stepone \in BOOLEAN, features \in BOOLEAN :
          \E subject_batch \in [1..B -> Codes] :
              NextBatch(B, W, subject_batch, stepone, features)
    \/ Forward

SpecForward == Init /\ [][NextForward]_vars

\* the rows inputs are made of
Rows == {[i \in 1..Dim |-> Unit], [i \in 1..Dim |-> IF i = 1 THEN -Unit ELSE 2 * Unit]}

Vector(row) == Numbers(<<Len(row)>>, [i \in Indices(<<Len(row)>>, {}) |-> row[i[1] + 1]])

\* inputs of rank 1 (features), rank 2 (rows, features) and rank 3
\* (1, rows, features)
Inputs ==
    LET matrices == {Matrix(rows) : rows \in UNION {[1..n -> Rows] : n \in 1..MaxRows}}
    IN  {Vector(row) : row \in Rows} \cup matrices \cup {Unsqueeze(m, 0) : m \in matrices}

\* dropout = 0.1 and dropout = 0.2, the two values BrainTranslator passes
DropoutTenths == {1, 2}

NextHead ==
    \/ \E kind \in {"a", "b"} : NewLoRALayer(kind)
    \/ \E tenths \in DropoutTenths, use_lora \in BOOLEAN, kinds \in {<<"a", "b">>, <<"b", "a">>} :
          NewProjectionHead(tenths, use_lora, kinds)
    \/ \E mode \in BOOLEAN : Train(mode)
    \/ \E x \in Inputs : LoRALayerForward(x)
    \/ \E x \in Inputs, mask \in Masks : ProjectionHeadForward(x, mask)

SpecHead == Init /\ [][NextHead]_vars

(***************************************************************************)
(* What the claims about the parameters speak of, read off the module      *)
(* tree and not off the names: an adapter parameter is a parameter of a    *)
(* LoRALinear; it belongs to the decoder when the module that owns it is   *)
(* reached through the attribute xlnet.                                    *)
(***************************************************************************)
AdapterParams(obj) == {p.id : p \in {q \in Range(obj.params) : q.owner = "LoRALinear"}}

DecoderParams(obj) == {p.id : p \in {q \in Range(obj.params) : q.name[1] = "xlnet"}}

\* lora_A and lora_B of every LoRALinear reachable in the tree, by any path
ReachableAdapterParams(obj) ==
    LET raw == NamedModulesRaw(obj.tree, <<>>)
    IN  UNION {{<<raw[i].mod.id, "lora_A">>, <<raw[i].mod.id, "lora_B">>} :
                  i \in {k \in 1..Len(raw) : raw[k].mod.kind = "LoRALinear"}}

\* where TransformerEncoderLayer.forward finds its linear sublayers: the
\* attention block's output projection and the two feed-forward layers
ForwardLinearPositions ==
    { << <<"self_attn">>, <<"out_proj">> >>, << <<"linear1">> >>, << <<"linear2">> >> }

\* the adapter parameters below a module
AdapterParamsBelow(m) ==
    LET raw == NamedModulesRaw(m, <<>>)
    IN  UNION {{<<raw[i].mod.id, "lora_A">>, <<raw[i].mod.id, "lora_B">>} :
                  i \in {k \in 1..Len(raw) : raw[k].mod.kind = "LoRALinear"}}

C2_FreezeBrainLeavesDecoderAdapters ==
    (self.built /\ last = "freeze_pretrained_brain")
    => /\ requires_grad = AdapterParams(self) \cap DecoderParams(self)
       /\ \A p \in Range(self.params) :
             (p.owner # "LoRALinear" \/ p.name[1] # "xlnet") => p.id \notin requires_grad

\* C2's case: the call has switched off adapter parameters outside the
\* decoder that were on, and left the decoder's adapters on
C2_Witness ==
    /\ self.built /\ self.use_lora /\ last = "freeze_pretrained_brain"
    /\ (pre \cap AdapterParams(self)) \ DecoderParams(self) # {}
    /\ requires_grad # {}

(***************************************************************************)
(* C3.  get_lora_params returns exactly the adapter parameters: lora_A and *)
(* lora_B of every adapter reachable in the model, each once, and nothing  *)
(* else; on a model built with adaptation it is the set                    *)
(* freeze_pretrained_xlnet leaves on when called on the freshly built      *)
(* model; on a model built without adaptation it is the empty list.        *)
(***************************************************************************)
C3_GetLoraParamsReturnsAdapters ==
    (self.built /\ last = "get_lora_params")
    => /\ ret.kind = "list"
       /\ \A i, j \in 1..Len(ret.items) : i # j => ret.items[i] # ret.items[j]
       /\ Range(ret.items) = ReachableAdapterParams(self)
       /\ Range(ret.items) = AdapterParams(self)
       /\ self.use_lora
             => Range(ret.items) = freeze_pretrained_xlnet(self, Ids(self.params))
       /\ ~self.use_lora => ret.items = <<>>

\* C3's case: the selector has returned the adapters of an adapted model
C3_Witness ==
    /\ self.built /\ self.use_lora /\ last = "get_lora_params"
    /\ ret.kind = "list"
    /\ Len(ret.items) > 0

(***************************************************************************)
(* C10 (as stated).  When BrainTranslator is constructed with adaptation   *)
(* enabled, in each of the 12 layers of the encoder stack every linear     *)
(* sublayer is, where the layer's forward pass takes it from, an adapter   *)
(* wrapper around the original sublayer, and no adapter parameter belongs  *)
(* to two layers.                                                          *)
(***************************************************************************)
C10_AsStated ==
    (self.built /\ self.use_lora)
    => /\ \A i \in 0..(NumLayers - 1) : \A pos \in ForwardLinearPositions :
             LET m == GetAt(EncoderLayerAt(self, i), pos)
             IN  /\ m.kind = "LoRALayer"
                 /\ GetChild(m, <<"base_layer">>).kind = "Linear"
       /\ \A i, j \in 0..(NumLayers - 1) :
             i # j => AdapterParamsBelow(EncoderLayerAt(self, i))
                      \cap AdapterParamsBelow(EncoderLayerAt(self, j)) = {}

(***************************************************************************)
(* What the claims about forward speak of.                                 *)
(***************************************************************************)
\* whether a local variable of the last forward call holds a tensor
IsTensor(v) == "shape" \in DOMAIN v

\* the word vector a description goes back to
RECURSIVE Origin(_)
Origin(d) ==
    IF "of" \in DOMAIN d THEN Origin(d.of)
    ELSE IF "a" \in DOMAIN d THEN Origin(d.a)
    ELSE d

\* the last forward call got as far as the subject loop
ReachedSubjectStep == last = "forward" /\ IsTensor(locals.encoded_embedding)

(***************************************************************************)
(* C4 (as stated).  For every batch of B >= 1 sentences of W >= 1 words,   *)
(* FeatureEmbedded.forward returns a tensor of rank 3 and shape            *)
(* (B, W, hidden_dim * directions); with B = 1 the leading axis stays.     *)
(***************************************************************************)
C4_AsStated ==
    (last = "forward" /\ IsTensor(locals.feature_embedded))
    => locals.feature_embedded.shape
         = <<args.batch, args.max_words, HiddenDim * Directions>>

(***************************************************************************)
(* C5 (as stated).  For every B >= 1 and max_words >= 1 (and configured    *)
(* subject codes) the subject step of forward ends without an exception,   *)
(* its result has the shape (B, max_words, feature_dim), which is the      *)
(* shape of its input, and the row of sample b, word w is made from that   *)
(* word of that sample with the vector of that sample's subject.           *)
(***************************************************************************)
C5_AsStated ==
    (/\ ReachedSubjectStep
     /\ \A k \in 1..args.batch : args.subject_batch[k] \in Range(SUBJECTS))
    => /\ IsTensor(locals.encoded_embedding_subject)
       /\ locals.encoded_embedding_subject.shape
            = <<args.batch, args.max_words, self.in_feature>>
       /\ locals.encoded_embedding_subject.shape = locals.encoded_embedding.shape
       /\ \A b \in 0..(args.batch - 1), w \in 0..(args.max_words - 1) :
             LET d == locals.encoded_embedding_subject.at[<<b, w, 0>>]
             IN  /\ Origin(d) = [sentence |-> b, word |-> w]
                 /\ d.subject = subjects_map_id[args.subject_batch[b + 1]]

(***************************************************************************)
(* C6 (as stated).  The registry maps each of the 30 configured codes to   *)
(* an index in [0, 30) of its own, at which a subject vector exists; and a *)
(* forward call that comes to the subject loop with a code in              *)
(* subject_batch that is not configured ends with a lookup error           *)
(* (KeyError).                                                             *)
(***************************************************************************)
C6_AsStated ==
    /\ Len(SUBJECTS) = NumSubjects
    /\ \A c \in Range(SUBJECTS) :
          /\ subjects_map_id[c] \in 0..(NumSubjects - 1)
          /\ subjects_map_id[c] + 1 \in DOMAIN subject_matrices
    /\ \A c, d \in Range(SUBJECTS) : subjects_map_id[c] = subjects_map_id[d] => c = d
    /\ (/\ ReachedSubjectStep
        /\ \E k \in 1..args.batch : args.subject_batch[k] \notin Range(SUBJECTS))
       => exc = "KeyError"

(***************************************************************************)
(* C9.  forward chooses its result by stepone alone.  With stepone true    *)
(* the decoder's forward pass is not invoked, and a call that returns      *)
(* returns the mean-squared error between the projected brain embedding    *)
(* and the decoder's embeddings of word_contents_batch, whatever features  *)
(* is.  With stepone false a call that comes to the switch invokes the     *)
(* decoder once, with the projected brain embedding as inputs_embeds,      *)
(* input_masks_batch as attention mask and target_ids_batch_converted as   *)
(* labels, and a call that returns returns the logits, paired with the     *)
(* brain embedding exactly when features is true.                          *)
(***************************************************************************)
C9_ModeSwitchByStepone ==
    (last = "forward")
    => /\ args.stepone => \A k \in 1..Len(calls) : calls[k].fn # "forward"
       /\ locals.line < 220 => calls = <<>> /\ ret = NoValue /\ exc # None
       /\ locals.line >= 220 =>
            /\ \A i \in DOMAIN locals.brain_embedding.at :
                  locals.brain_embedding.at[i].a.op = <<"brain_projection", "dropout">>
            /\ args.stepone =>
                  /\ Len(calls) = 1 /\ calls[1].fn = "get_input_embeddings"
                  /\ calls[1].args.input = "word_contents_batch"
                  /\ exc = None =>
                        /\ ret.kind = "mse_loss"
                        /\ ret.input = locals.brain_embedding
                        /\ ret.target = WordEmbeddings(args)
            /\ ~args.stepone =>
                  /\ Len(calls) = 1 /\ calls[1].fn = "forward"
                  /\ calls[1].args.inputs_embeds = locals.brain_embedding
                  /\ calls[1].args.attention_mask = "input_masks_batch"
                  /\ calls[1].args.labels = "target_ids_batch_converted"
                  /\ (exc = None /\ args.features) =>
                        /\ ret.kind = "tuple"
                        /\ ret.items = <<[kind |-> "logits", of |-> locals.brain_embedding],
                                         locals.brain_embedding>>
                  /\ (exc = None /\ ~args.features) =>
                        ret = [kind |-> "logits", of |-> locals.brain_embedding]

\* C9's case: a call with stepone false and features true has returned the
\* pair
C9_Witness ==
    /\ last = "forward" /\ exc = None
    /\ ~args.stepone /\ args.features
    /\ ret.kind = "tuple"
    /\ Len(calls) = 1

(***************************************************************************)
(* What the claims about the head and the adapter speak of.                *)
(***************************************************************************)
\* the last call was ProjectionHead.forward and it returned
HeadReturned == last = "ProjectionHead.forward" /\ exc = None

\* stage 1 of the head on the input of the last call
Stage1 == Apply(net.module.projection, args.x).t

\* the dropout of the head as the last call drew it
HeadDropout(x) == Dropout(x, net.module.dropout, net.training, args.mask)

(***************************************************************************)
(* C7 (as stated).  ProjectionHead.forward(x) returns                      *)
(* stage2(dropout(nonlinearity(stage1(x)))) + stage1(x).                   *)
(***************************************************************************)
C7_AsStated ==
    HeadReturned
    => ret = Plus(Apply(net.module.fc, HeadDropout(Gelu(Stage1))).t, Stage1).t

(***************************************************************************)
(* C7 (amended).  ProjectionHead.forward(x) returns                        *)
(* dropout(stage2(nonlinearity(stage1(x)))) + stage1(x): the dropout is    *)
(* taken of the output of stage 2, and what is added is the output of      *)
(* stage 1, so stage 1's output is in both terms.  In evaluation mode,     *)
(* where dropout changes nothing, that is                                  *)
(* stage2(nonlinearity(stage1(x))) + stage1(x).                            *)
(***************************************************************************)
C7_DropoutAfterStage2 ==
    HeadReturned
    => /\ ret = Plus(HeadDropout(Apply(net.module.fc, Gelu(Stage1)).t), Stage1).t
       /\ ~net.training => ret = Plus(Apply(net.module.fc, Gelu(Stage1)).t, Stage1).t

\* C7's case: a head in training mode has returned, its dropout having
\* zeroed some elements and kept others
C7_Witness ==
    /\ HeadReturned
    /\ net.training
    /\ args.mask \in {"not_first", "even"}
    /\ ret # Plus(Apply(net.module.fc, Gelu(Stage1)).t, Stage1).t

(***************************************************************************)
(* C8 (as stated).  Constructing a LoRALayer around a linear layer b gives *)
(* a layer that holds b itself, unchanged, and on every input x the new    *)
(* layer's forward returns what b returns on x.                            *)
(***************************************************************************)
C8_AsStated ==
    /\ last = "LoRALayer.__init__"
          => /\ exc = None
             /\ net.built
             /\ net.module.base_layer = args.base_layer
    /\ last = "LoRALayer.forward"
          => /\ exc = None
             /\ ret = Linear_apply(net.module.base_layer, args.x).t
====
